---------------------------- MODULE Spec2Model ----------------------------
(***************************************************************************)
(* One timestep of the Hymod rainfall-runoff kernel                        *)
(* (src/models/hymod/include/Hymod.h): hymod_kernel::run, its mass_check,  *)
(* the C entry point hymod, and a host that feeds each new state back in.  *)
(*                                                                         *)
(* A double is modelled as an exact rational <<numerator, denominator>>    *)
(* in lowest terms with a positive denominator, so every sum, product and  *)
(* comparison of the kernel is computed exactly.  The exponent params.b is *)
(* drawn from the naturals, for which pow is repeated multiplication.      *)
(***************************************************************************)
EXTENDS Integers, Sequences, FiniteSets

(***************************************************************************)
(* Bounds of the model.                                                    *)
(***************************************************************************)
\* largest number of nash cascade reservoirs (params.n) the host configures
MaxN == 2
\* number of consecutive timesteps the host runs
MaxSteps == 2

(***************************************************************************)
(* Program constants.                                                      *)
(***************************************************************************)
NO_ERROR == 0
MASS_BALANCE_ERROR == 100
\* the unit time length handed to every LinearReservoir, 86400.0
UnitTime == 86400
\* the mass tolerance 0.000001 is 1 / ToleranceDen
ToleranceDen == 1000000

(***************************************************************************)
(* Exact arithmetic on doubles.                                            *)
(***************************************************************************)
Abs(i) == IF i < 0 THEN -i ELSE i

RECURSIVE GCD(_, _)
GCD(i, j) == IF j = 0 THEN i ELSE GCD(j, i % j)

Norm(num, den) ==
    LET g == GCD(Abs(num), den)
    IN  <<num \div g, den \div g>>

R(i) == <<i, 1>>

Frac(i, j) == Norm(i, j)

RAdd(x, y) ==
    LET g == GCD(x[2], y[2])
        l == (x[2] \div g) * y[2]
    IN  Norm(x[1] * (l \div x[2]) + y[1] * (l \div y[2]), l)

RNeg(x) == <<-x[1], x[2]>>

RSub(x, y) == RAdd(x, RNeg(y))

RMul(x, y) ==
    LET g1 == GCD(Abs(x[1]), y[2])
        g2 == GCD(Abs(y[1]), x[2])
    IN  Norm((x[1] \div g1) * (y[1] \div g2), (x[2] \div g2) * (y[2] \div g1))

\* x / y for y # 0
RDiv(x, y) ==
    IF y[1] < 0 THEN RMul(x, <<-y[2], -y[1]>>) ELSE RMul(x, <<y[2], y[1]>>)

RECURSIVE RPow(_, _)
RPow(x, k) == IF k = 0 THEN R(1) ELSE RMul(x, RPow(x, k - 1))

RLeq(x, y) == RSub(x, y)[1] <= 0

\* x > 0.000001, without forming x[1] * ToleranceDen
GtTolerance(x) == x[1] > x[2] \div ToleranceDen

RECURSIVE RSum(_)
RSum(s) == IF s = <<>> THEN R(0) ELSE RAdd(Head(s), RSum(Tail(s)))

\* the integer a double converts to (truncation), for a double >= 0
Trunc(x) == x[1] \div x[2]


(***************************************************************************)
(* LinearReservoir (LinearReservoir.hpp): one storage with linear decay.   *)
(***************************************************************************)
LinearReservoir(initial_storage, max_storage, k, t) ==
    [storage |-> initial_storage, max_storage |-> max_storage, k |-> k, t |-> t]

\* an element of the vector after nash_cascade.resize, before its assignment
DefaultReservoir == LinearReservoir(R(0), R(1), R(1), R(1))

\* the share of the storage released over dt: k scaled by dt / t
Released(res, dt) == RMul(res.k, RDiv(dt, res.t))

\* response(in_flux, dt): the inflow joins the storage, the released share leaves
response(res, in_flux, dt) ==
    LET filled == RAdd(res.storage, in_flux)
        out    == RMul(Released(res, dt), filled)
    IN  [out |-> out, res |-> [res EXCEPT !.storage = RSub(filled, out)]]

get_storage(res) == res.storage

(***************************************************************************)
(* hymod_kernel: the pure parts.                                           *)
(***************************************************************************)
\* an evapotranspiration that takes half of the soil moisture
calc_et_half(soil_m, et_params) == RMul(Frac(1, 2), soil_m)

\* stub function to simulate losses due to evapotransportation
calc_et(soil_m, et_params) == R(0)

\* a cascade of one reservoir more than params.n
CascadeSizePlusOne(p) == Trunc(p.n) + 1

\* the number of elements nash_cascade.resize(params.n) makes from the double n
CascadeSize(p) == Trunc(p.n)

\* the number of iterations of  for (int i = 0; i < params.n; ++i)
MassLoopCount(p) ==
    IF p.n[2] = 1 THEN Trunc(p.n) ELSE Trunc(p.n) + 1

\* fs = (1.0 - pow((1.0 - state.storage/params.max_storage), params.b))
StorageExcess(storage, p) ==
    RSub(R(1), RPow(RSub(R(1), RDiv(storage, p.max_storage)), p.b))

\* double runoff = fs * params.a
RunoffIn(fs, p) == RMul(fs, p.a)

\* double slow = fs * (1.0 - params.a)
SlowIn(fs, p) == RMul(fs, RSub(R(1), p.a))

(***************************************************************************)
(* Caller-owned memory.  A cascade buffer is a sequence of doubles; an Sr  *)
(* pointer is the name of the buffer it points to.  Element i of the code  *)
(* is element i + 1 of the sequence.                                       *)
(***************************************************************************)
Buffers == {"A", "B"}

\* what a read beyond the end of a buffer may find there
Garbage == {R(0), R(1)}

InBounds(h, buf, idx) == idx < Len(h[buf])

\* the values the reads of indices 0 .. cnt - 1 of buf may return beyond its end
JunkFor(h, buf, cnt) ==
    {j \in [0 .. cnt - 1 -> Garbage] :
        \A idx \in 0 .. cnt - 1 : InBounds(h, buf, idx) => j[idx] = R(0)}

\* the value  ptr[idx]  reads
SrRead(h, buf, idx, junk) ==
    IF InBounds(h, buf, idx) THEN h[buf][idx + 1] ELSE junk[idx]

NoCell == <<"none", 0>>

\* where a write of  ptr[idx]  may land: in the buffer, or beyond its end on
\* memory no buffer holds or on an element of the other buffer
WriteTargets(h, buf, idx) ==
    IF InBounds(h, buf, idx)
    THEN {<<buf, idx + 1>>}
    ELSE {NoCell} \cup
         UNION {{<<b, c>> : c \in 1 .. Len(h[b])} : b \in Buffers \ {buf}}

\* the memory after  ptr[idx] = v  landed on target
SrWrite(h, target, v) ==
    IF target = NoCell THEN h ELSE [h EXCEPT ![target[1]][target[2]] = v]

\* the sum of the elements 0 .. cnt - 1 read through an Sr pointer
RECURSIVE SumSr(_, _, _, _)
SumSr(h, buf, cnt, junk) ==
    IF cnt = 0 THEN R(0)
    ELSE RAdd(SumSr(h, buf, cnt - 1, junk), SrRead(h, buf, cnt - 1, junk))

(***************************************************************************)
(* hymod_kernel::mass_check.  h is the memory the two Sr pointers are read *)
(* from, junk_c and junk_n what the reads beyond a buffer's end return.    *)
(***************************************************************************)
InitialMass(p, current_state, input_flux, h, junk_c) ==
    RAdd(RAdd(RAdd(current_state.storage, current_state.groundwater_storage),
              SumSr(h, current_state.Sr, MassLoopCount(p), junk_c)),
         input_flux)

FinalMass(p, next_state, calculated_fluxes, h, junk_n) ==
    RAdd(RAdd(RAdd(next_state.storage, next_state.groundwater_storage),
              SumSr(h, next_state.Sr, MassLoopCount(p), junk_n)),
         RAdd(RAdd(calculated_fluxes.et_loss, calculated_fluxes.runnoff),
              calculated_fluxes.slow_flow))

\* mass_check flagging created water as it flags lost water
mass_check_two_sided(p, current_state, input_flux, next_state, calculated_fluxes, h, junk_c, junk_n) ==
    LET loss == RSub(InitialMass(p, current_state, input_flux, h, junk_c),
                     FinalMass(p, next_state, calculated_fluxes, h, junk_n))
    IN  IF GtTolerance(<<Abs(loss[1]), loss[2]>>)
        THEN MASS_BALANCE_ERROR
        ELSE NO_ERROR

mass_check(p, current_state, input_flux, next_state, calculated_fluxes, h, junk_c, junk_n) ==
    IF GtTolerance(RSub(InitialMass(p, current_state, input_flux, h, junk_c),
                        FinalMass(p, next_state, calculated_fluxes, h, junk_n)))
    THEN MASS_BALANCE_ERROR
    ELSE NO_ERROR

(***************************************************************************)
(* State.                                                                  *)
(***************************************************************************)
VARIABLES
    params,     \* hymod_params of the catchment
    state,      \* the caller's hymod_state, the input of the step
    new_state,  \* the caller's hymod_state that receives the new state
    fluxes,     \* the caller's hymod_fluxes
    heap,       \* the caller's cascade buffers, by name
    pc,         \* where the call is: idle, build, cascade, store, returned
    local,      \* run's parameters and local variables
    status,     \* the code the last call returned
    steps,      \* the timestep the host is at
    pre,        \* the caller's memory as it was when run was called
    acc,        \* the elements the call read and wrote through Sr pointers
    routed      \* the cascade responses of the call: <<stage, inflow, outflow>>

vars == <<params, state, new_state, fluxes, heap, pc, local, status, steps,
          pre, acc, routed>>

hymod_state(inital_storage, gw_storage, storage_reservoir_ptr) ==
    [storage |-> inital_storage, groundwater_storage |-> gw_storage,
     Sr |-> storage_reservoir_ptr]

hymod_fluxes(sf, r, et) == [slow_flow |-> sf, runnoff |-> r, et_loss |-> et]

hymod_params(max_storage, a, b, Ks, Kq, n) ==
    [max_storage |-> max_storage, a |-> a, b |-> b, Ks |-> Ks, Kq |-> Kq, n |-> n]

\* run's frame before anything is computed
Frame(st, input_flux, dt, size) ==
    [state |-> st, input_flux |-> input_flux, dt |-> dt,
     nash_cascade |-> [c \in 1 .. size |-> DefaultReservoir],
     groundwater |-> DefaultReservoir,
     fs |-> R(0), runoff |-> R(0), slow |-> R(0), soil_m |-> R(0),
     et |-> R(0), slow_flow |-> R(0), i |-> 0]

NoAccess == [rd |-> {}, wr |-> {}]

(***************************************************************************)
(* The host: the parameters, states and buffers it sets up, the inputs of  *)
(* a step, and the feeding of each new state back as the next state.       *)
(***************************************************************************)
ParamSet ==
    {hymod_params(R(m), a, b, Frac(1, 2), Frac(1, 2), R(n)) :
        m \in {1, 2}, a \in {Frac(1, 2), R(1)}, b \in {1, 2}, n \in 0 .. MaxN}

\* the parameters of the hosts that do not keep the contract on the buffers
PlainParamSet ==
    {p \in ParamSet : p.max_storage = R(2) /\ p.a = Frac(1, 2) /\ p.b = 1}

\* initial soil storages within 0 .. max_storage
InitialStorages(p) == {R(0), RMul(Frac(1, 2), p.max_storage), p.max_storage}

InitialGroundwater == {R(0), R(1)}

InputFluxes == {R(0), R(1)}

TimeSteps == {R(43200), R(UnitTime)}

\* the lengths of the buffers the host allocates: exactly params.n elements, or
\* with no contract any length, shorter than params.n included
BufferLengths(p, unchecked) ==
    IF unchecked THEN 0 .. MaxN ELSE {Trunc(p.n)}

\* the contents of a cascade buffer: empty reservoirs, or every other one full
BuffersOfLength(len) ==
    {[c \in 1 .. len |-> R(0)], [c \in 1 .. len |-> R(c % 2)]}

HostInit(unchecked, ptrs) ==
    /\ params \in (IF unchecked THEN PlainParamSet ELSE ParamSet)
    /\ \E la \in BufferLengths(params, unchecked), lb \in BufferLengths(params, unchecked) :
          \E ca \in BuffersOfLength(la) :
             heap = [b \in Buffers |-> IF b = "A" THEN ca ELSE [c \in 1 .. lb |-> R(0)]]
    /\ \E s \in (IF unchecked THEN {R(0)} ELSE InitialStorages(params)),
          g \in (IF unchecked THEN {R(0)} ELSE InitialGroundwater) :
          state = hymod_state(s, g, "A")
    /\ \E ptr \in ptrs : new_state = hymod_state(R(0), R(0), ptr)
    /\ fluxes = hymod_fluxes(R(0), R(0), R(0))
    /\ pc = "idle"
    /\ local = Frame(state, R(0), R(0), 0)
    /\ status = NO_ERROR
    /\ steps = 1
    /\ pre = [state |-> state, new_state |-> new_state, heap |-> heap, params |-> params]
    /\ acc = NoAccess
    /\ routed = <<>>

\* the contract of run: two distinct buffers of at least params.n elements
Init == HostInit(FALSE, {"B"})

\* no contract: short buffers, and one buffer behind both states
InitUnchecked == HostInit(TRUE, Buffers)

\* buffers of params.n elements, and one buffer behind both states allowed
InitShared == HostInit(FALSE, Buffers) /\ params \in PlainParamSet

(***************************************************************************)
(* hymod_kernel::run, one action per straight-line part and loop body.     *)
(***************************************************************************)
\* the call: state is copied by value, nash_cascade is resized to params.n
run(input_flux, dt) ==
    /\ pc = "idle"
    /\ local' = Frame(state, input_flux, dt, CascadeSize(params))
    /\ pre' = [state |-> state, new_state |-> new_state, heap |-> heap,
               params |-> params]
    /\ acc' = NoAccess
    /\ routed' = <<>>
    /\ pc' = "build"
    /\ UNCHANGED <<params, state, new_state, fluxes, heap, status, steps>>

\* the C entry point: forwards its arguments to run
hymod(input_flux, dt) == run(input_flux, dt)

\* nash_cascade[i] = LinearReservoir(state.Sr[i], max_storage, Kq, 86400.0)
BuildStep ==
    /\ pc = "build"
    /\ local.i < Len(local.nash_cascade)
    /\ \E junk \in JunkFor(heap, local.state.Sr, local.i + 1) :
          local' = [local EXCEPT
              !.nash_cascade[local.i + 1] =
                  LinearReservoir(SrRead(heap, local.state.Sr, local.i, junk),
                                  params.max_storage, params.Kq, R(UnitTime)),
              !.i = local.i + 1]
    /\ acc' = [acc EXCEPT !.rd = @ \cup {<<local.state.Sr, local.i>>}]
    /\ UNCHANGED <<params, state, new_state, fluxes, heap, pc, status, steps,
                   pre, routed>>

\* the groundwater reservoir, the input flux, fs, runoff, slow, soil_m, et
\* and the slow flow
Partition ==
    /\ pc = "build"
    /\ local.i = Len(local.nash_cascade)
    /\ LET groundwater == LinearReservoir(local.state.groundwater_storage,
                                          params.max_storage, params.Ks, R(UnitTime))
           storage == RAdd(local.state.storage, local.input_flux)
           fs      == StorageExcess(storage, params)
           slow    == SlowIn(fs, params)
           soil_m  == RSub(storage, fs)
           gw      == response(groundwater, slow, local.dt)
       IN  local' = [local EXCEPT
               !.state.storage = storage,
               !.fs = fs,
               !.runoff = RunoffIn(fs, params),
               !.slow = slow,
               !.soil_m = soil_m,
               !.et = calc_et(soil_m, "et_params"),
               !.slow_flow = gw.out,
               !.groundwater = gw.res,
               !.i = 0]
    /\ pc' = "cascade"
    /\ UNCHANGED <<params, state, new_state, fluxes, heap, status, steps, pre,
                   acc, routed>>

\* every reservoir of the cascade receiving the raw runoff fs * a
StageInflowRaw == RunoffIn(local.fs, params)

\* the flux reservoir i of the cascade receives
StageInflow == local.runoff

\* runoff = nash_cascade[i].response(runoff, dt)
CascadeStep ==
    /\ pc = "cascade"
    /\ local.i < Len(local.nash_cascade)
    /\ LET r == response(local.nash_cascade[local.i + 1], StageInflow, local.dt)
       IN  /\ local' = [local EXCEPT
                  !.runoff = r.out,
                  !.nash_cascade[local.i + 1] = r.res,
                  !.i = local.i + 1]
           /\ routed' = Append(routed, <<local.i, StageInflow, r.out>>)
    /\ UNCHANGED <<params, state, new_state, fluxes, heap, pc, status, steps,
                   pre, acc>>

\* record all fluxs, update new_state.storage and new_state.groundwater_storage
Record ==
    /\ pc = "cascade"
    /\ local.i = Len(local.nash_cascade)
    /\ fluxes' = hymod_fluxes(local.slow_flow, local.runoff, local.et)
    /\ new_state' = [new_state EXCEPT
           !.storage = RSub(local.soil_m, local.et),
           !.groundwater_storage = get_storage(local.groundwater)]
    /\ local' = [local EXCEPT !.i = 0]
    /\ pc' = "store"
    /\ UNCHANGED <<params, state, heap, status, steps, pre, acc, routed>>

\* the new cascade storages written through the pointer of the input state
StorePtrInput == state.Sr

\* the pointer the new cascade storages are written through
StorePtr == new_state.Sr

\* new_state.Sr[i] = nash_cascade[i].get_storage()
StoreStep ==
    /\ pc = "store"
    /\ local.i < Len(local.nash_cascade)
    /\ \E target \in WriteTargets(heap, StorePtr, local.i) :
          heap' = SrWrite(heap, target, get_storage(local.nash_cascade[local.i + 1]))
    /\ acc' = [acc EXCEPT !.wr = @ \cup {<<StorePtr, local.i>>}]
    /\ local' = [local EXCEPT !.i = local.i + 1]
    /\ UNCHANGED <<params, state, new_state, fluxes, pc, status, steps, pre,
                   routed>>

\* run handing the caller's state as it was before input_flux was added
CheckedStateOriginal == pre.state

\* the state run hands to mass_check as current_state
CheckedState == local.state

\* run taking its outputs back when the mass check fails
ReturnRollback ==
    /\ pc = "store"
    /\ local.i = Len(local.nash_cascade)
    /\ \E junk_c \in JunkFor(heap, CheckedState.Sr, MassLoopCount(params)),
          junk_n \in JunkFor(heap, new_state.Sr, MassLoopCount(params)) :
          LET code == mass_check(params, CheckedState, local.input_flux, new_state,
                                 fluxes, heap, junk_c, junk_n)
          IN  /\ status' = code
              /\ new_state' = IF code = NO_ERROR THEN new_state ELSE pre.new_state
              /\ fluxes' = IF code = NO_ERROR THEN fluxes
                           ELSE hymod_fluxes(R(0), R(0), R(0))
    /\ acc' = [acc EXCEPT !.rd = @ \cup
           {<<ptr, idx>> : ptr \in {CheckedState.Sr, new_state.Sr},
                           idx \in 0 .. MassLoopCount(params) - 1}]
    /\ pc' = "returned"
    /\ UNCHANGED <<params, state, heap, local, steps, pre, routed>>

\* return mass_check(params, state, input_flux, new_state, fluxes)
Return ==
    /\ pc = "store"
    /\ local.i = Len(local.nash_cascade)
    /\ \E junk_c \in JunkFor(heap, CheckedState.Sr, MassLoopCount(params)),
          junk_n \in JunkFor(heap, new_state.Sr, MassLoopCount(params)) :
          status' = mass_check(params, CheckedState, local.input_flux, new_state,
                               fluxes, heap, junk_c, junk_n)
    /\ acc' = [acc EXCEPT !.rd = @ \cup
           {<<ptr, idx>> : ptr \in {CheckedState.Sr, new_state.Sr},
                           idx \in 0 .. MassLoopCount(params) - 1}]
    /\ pc' = "returned"
    /\ UNCHANGED <<params, state, new_state, fluxes, heap, local, steps, pre,
                   routed>>

\* the host makes the new state the state of the next timestep; the buffer of
\* the old state receives the state after that
Advance ==
    /\ pc = "returned"
    /\ steps < MaxSteps
    /\ state' = new_state
    /\ new_state' = [new_state EXCEPT !.Sr = state.Sr]
    /\ steps' = steps + 1
    /\ pc' = "idle"
    /\ UNCHANGED <<params, fluxes, heap, local, status, pre, acc, routed>>

Next ==
    \/ \E input_flux \in InputFluxes, dt \in TimeSteps : run(input_flux, dt)
    \/ \E input_flux \in InputFluxes, dt \in TimeSteps : hymod(input_flux, dt)
    \/ BuildStep
    \/ Partition
    \/ CascadeStep
    \/ Record
    \/ StoreStep
    \/ Return
    \/ Advance

Spec == Init /\ [][Next]_vars

SpecUnchecked == InitUnchecked /\ [][Next]_vars

SpecShared == InitShared /\ [][Next]_vars

(***************************************************************************)
(* mass_check on its own: a call of it with any states, fluxes and input   *)
(* flux, masses a tolerance apart included.                                *)
(***************************************************************************)
MassValues == {R(0), R(1), Frac(1, ToleranceDen), Frac(2, ToleranceDen)}

InitMassCheck ==
    /\ params \in {p \in ParamSet : p.max_storage = R(1) /\ p.a = R(1) /\ p.b = 1}
    /\ \E ca \in BuffersOfLength(Trunc(params.n)), cb \in BuffersOfLength(Trunc(params.n)) :
          heap = [b \in Buffers |-> IF b = "A" THEN ca ELSE cb]
    /\ state = hymod_state(R(0), R(0), "A")
    /\ \E s \in MassValues : new_state = hymod_state(s, R(0), "B")
    /\ \E sf \in {R(0), Frac(2, ToleranceDen)}, r \in {R(0), R(1)},
          et \in {R(0), Frac(1, ToleranceDen)} :
          fluxes = hymod_fluxes(sf, r, et)
    /\ pc = "store"
    /\ \E s \in MassValues, g \in InitialGroundwater,
          input_flux \in {R(0), R(1), Frac(1, ToleranceDen)} :
          local = [Frame(hymod_state(s, g, "A"), input_flux, R(UnitTime),
                         Trunc(params.n))
                   EXCEPT !.i = Trunc(params.n)]
    /\ status = NO_ERROR
    /\ steps = MaxSteps
    /\ pre = [state |-> state, new_state |-> new_state, heap |-> heap, params |-> params]
    /\ acc = NoAccess
    /\ routed = <<>>

SpecMassCheck == InitMassCheck /\ [][Return]_vars

(***************************************************************************)
(* What the claims speak of.                                               *)
(***************************************************************************)
RAbs(x) == <<Abs(x[1]), x[2]>>

Called == pc # "idle"

Returned == pc = "returned"

\* the number of cascade reservoirs, params.n
N == Trunc(params.n)

\* the sum of the first N elements of a buffer
CascadeTotal(buffer) == RSum(SubSeq(buffer, 1, N))

\* the water in the caller's state when run was called
PreCallWater ==
    RAdd(RAdd(pre.state.storage, pre.state.groundwater_storage),
         CascadeTotal(pre.heap[pre.state.Sr]))

\* the water in the new state and in the three fluxes
FinalWater ==
    RAdd(RAdd(RAdd(new_state.storage, new_state.groundwater_storage),
              CascadeTotal(heap[new_state.Sr])),
         RAdd(RAdd(fluxes.et_loss, fluxes.runnoff), fluxes.slow_flow))

\* the water in the state handed to mass_check as the state before the step
BeforeWater ==
    RAdd(RAdd(local.state.storage, local.state.groundwater_storage),
         CascadeTotal(heap[local.state.Sr]))

\* C1: mass_check is one-sided: it returns MASS_BALANCE_ERROR exactly when
\* initial_mass - final_mass > 1e-6, with initial_mass the before-state's
\* storage, groundwater storage and n cascade storages plus input_flux and
\* final_mass the after-state's plus the three fluxes, and NO_ERROR otherwise,
\* in particular whenever final_mass >= initial_mass; it returns no other code.
C1_MassCheckOneSided ==
    Returned =>
        LET initial_mass == RAdd(BeforeWater, local.input_flux)
            final_mass   == FinalWater
            loss         == RSub(initial_mass, final_mass)
        IN  /\ status \in {NO_ERROR, MASS_BALANCE_ERROR}
            /\ (status = MASS_BALANCE_ERROR) <=>
                   RSub(loss, Frac(1, ToleranceDen))[1] > 0
            /\ RLeq(initial_mass, final_mass) => status = NO_ERROR

\* C1 witness: mass_check returned NO_ERROR for a step that created a whole
\* unit of water
C1_Witness ==
    /\ Returned
    /\ status = NO_ERROR
    /\ RLeq(R(1), RSub(FinalWater, RAdd(BeforeWater, local.input_flux)))

\* C2: run returns NO_ERROR exactly when the water of the caller's pre-call
\* state plus input_flux equals, within 1e-6 either way, the water of the new
\* state plus the fluxes, and MASS_BALANCE_ERROR otherwise.
C2_RunVerifiesConservation ==
    Returned =>
        LET change == RAbs(RSub(RAdd(PreCallWater, local.input_flux), FinalWater))
        IN  IF GtTolerance(change)
            THEN status = MASS_BALANCE_ERROR
            ELSE status = NO_ERROR

\* C3: the state run hands to mass_check holds the caller's pre-call storage
\* plus input_flux, and input_flux is added once more, so the status follows
\* initial_mass = pre-call water + 2 * input_flux.
C3_CheckedStateAlreadyIncremented ==
    Returned =>
        LET twice        == RAdd(local.input_flux, local.input_flux)
            initial_mass == RAdd(PreCallWater, twice)
        IN  /\ local.state.storage = RAdd(pre.state.storage, local.input_flux)
            /\ status = IF GtTolerance(RSub(initial_mass, FinalWater))
                        THEN MASS_BALANCE_ERROR
                        ELSE NO_ERROR

\* C3 witness: a call with input_flux = 1 returned MASS_BALANCE_ERROR although
\* the pre-call water plus the input equals the final water
C3_Witness ==
    /\ Returned
    /\ local.input_flux = R(1)
    /\ status = MASS_BALANCE_ERROR
    /\ RAdd(PreCallWater, local.input_flux) = FinalWater

\* fs * a for the caller's storage and the input flux of the call
RunoffInOfCall ==
    LET filled == RAdd(pre.state.storage, local.input_flux)
        fs     == RSub(R(1), RPow(RSub(R(1), RDiv(filled, params.max_storage)),
                                  params.b))
    IN  RMul(fs, params.a)

\* the outflow of stage k - 1 when the stages 0 .. k - 1, each starting from the
\* caller's cascade storage, respond in turn to the outflow of the stage before
RECURSIVE PipelineOut(_)
PipelineOut(k) ==
    IF k = 0 THEN RunoffInOfCall
    ELSE response(LinearReservoir(pre.heap[pre.state.Sr][k], params.max_storage,
                                  params.Kq, R(UnitTime)),
                  PipelineOut(k - 1), local.dt).out

CascadeDone == pc \in {"store", "returned"}

\* C4: cascade pipelining: the stages respond once each in increasing index
\* order, stage 0 to runoff_in = fs * a and stage i >= 1 to the outflow stage
\* i - 1 produced in the same call; fluxes.runoff is the outflow of stage n - 1,
\* the sequential composition of the n responses applied to runoff_in.
C4_CascadePipelining ==
    /\ \A j \in 1 .. Len(routed) :
          /\ routed[j][1] = j - 1
          /\ routed[j][2] = IF j = 1 THEN RunoffInOfCall ELSE routed[j - 1][3]
    /\ pc = "cascade" => Len(routed) = local.i
    /\ (CascadeDone /\ N >= 1) =>
          /\ Len(routed) = N
          /\ fluxes.runnoff = routed[N][3]
          /\ fluxes.runnoff = PipelineOut(N)

\* C4 witness: a call with two reservoirs returned, and the second responded
\* to an inflow that is not the raw runoff_in
C4_Witness ==
    /\ Returned
    /\ N = 2
    /\ routed[2][2] # RunoffInOfCall
    /\ fluxes.runnoff # R(0)

\* C5: zero-cascade boundary: with params.n = 0 run builds no reservoir, reads
\* and writes no element through an Sr pointer, and sets fluxes.runoff to
\* runoff_in = fs * a, fs = 1 - (1 - (storage + input_flux) / max_storage)^b.
C5_ZeroCascade ==
    (Called /\ params.n = R(0)) =>
        /\ local.nash_cascade = <<>>
        /\ routed = <<>>
        /\ acc = NoAccess
        /\ heap = pre.heap
        /\ CascadeDone => fluxes.runnoff = RunoffInOfCall

\* C5 witness: a call with no cascade returned a runoff that is not zero
C5_Witness ==
    /\ Returned
    /\ params.n = R(0)
    /\ fluxes.runnoff # R(0)

\* the outputs of run hold what run computed
C6_Outputs ==
    /\ fluxes = hymod_fluxes(local.slow_flow, local.runoff, local.et)
    /\ new_state.storage = RSub(local.soil_m, local.et)
    /\ new_state.groundwater_storage = local.groundwater.storage
    /\ \A c \in 1 .. N : heap[new_state.Sr][c] = local.nash_cascade[c].storage

\* C6: compute then validate, no rollback: whatever status run returns, also
\* MASS_BALANCE_ERROR, fluxes = {slow_flow, runoff, et}, new_state.storage =
\* soil_m - et, new_state.groundwater_storage and new_state.Sr[i] are the
\* reservoirs' final storages; all are assigned before the mass check runs.
C6_ComputeThenValidate ==
    /\ (pc = "store" /\ local.i = N) => C6_Outputs
    /\ Returned => C6_Outputs

\* C6 witness: run returned MASS_BALANCE_ERROR with a flux and a cascade
\* storage it computed in place
C6_Witness ==
    /\ Returned
    /\ status = MASS_BALANCE_ERROR
    /\ N >= 1
    /\ fluxes.slow_flow # R(0)
    /\ heap[new_state.Sr] # pre.heap[new_state.Sr]

\* a cascade buffer of the call holds fewer than params.n elements
ShortBuffers ==
    \/ Len(pre.heap[pre.state.Sr]) < N
    \/ Len(pre.heap[pre.new_state.Sr]) < N

\* the call read or wrote an index at or beyond the length of a buffer
OutOfBounds == \E a \in acc.rd \cup acc.wr : a[2] >= Len(heap[a[1]])

\* C7: a call whose state or new_state buffer has fewer than params.n elements
\* is rejected, before any computation, with an error kind that is neither
\* NO_ERROR nor MASS_BALANCE_ERROR, and no index at or beyond a buffer's
\* length is read or written.
C7_ShortBufferRejected ==
    (Called /\ ShortBuffers) =>
        /\ ~OutOfBounds
        /\ pc \notin {"cascade", "store"}
        /\ Returned => status \notin {NO_ERROR, MASS_BALANCE_ERROR}

\* C8: from a state with 0 <= storage <= max_storage, valid parameters and
\* input_flux >= 0 at every step, every new_state.storage run produces lies
\* within 0 .. max_storage.
C8_StorageBounded ==
    CascadeDone =>
        /\ RLeq(R(0), new_state.storage)
        /\ RLeq(new_state.storage, params.max_storage)

\* C9: with the default calc_et every call sets fluxes.et_loss to exactly 0,
\* whatever dt, params, state and input_flux are, and so new_state.storage =
\* soil_m = (storage + input_flux) - fs.
C9_EtStub ==
    /\ pc \in {"cascade", "store", "returned"} => local.et = R(0)
    /\ CascadeDone =>
          LET filled == RAdd(pre.state.storage, local.input_flux)
              fs     == RSub(R(1), RPow(RSub(R(1), RDiv(filled, params.max_storage)),
                                        params.b))
          IN  /\ fluxes.et_loss = R(0)
              /\ new_state.storage = local.soil_m
              /\ new_state.storage = RSub(filled, fs)

\* C9 witness: the second step of a host, half a day long and with input, gave
\* no loss and left soil moisture
C9_Witness ==
    /\ Returned
    /\ steps = 2
    /\ local.dt = R(43200)
    /\ local.input_flux = R(1)
    /\ fluxes.et_loss = R(0)
    /\ local.fs # R(0)
    /\ new_state.storage # R(0)

\* C10: frame of run: with distinct cascade buffers behind state and new_state
\* a call leaves the caller's state, every element of the buffer state.Sr
\* points to, and params unchanged; it writes only new_state.storage,
\* new_state.groundwater_storage, new_state.Sr[0 .. n-1] and fluxes, and never
\* reassigns an Sr pointer.
C10_Frame ==
    (Called /\ pre.state.Sr # pre.new_state.Sr /\ ~ShortBuffers) =>
        /\ state = pre.state
        /\ params = pre.params
        /\ heap[state.Sr] = pre.heap[state.Sr]
        /\ new_state.Sr = pre.new_state.Sr
        /\ acc.wr \subseteq {<<new_state.Sr, idx>> : idx \in 0 .. N - 1}
        /\ \A c \in N + 1 .. Len(heap[new_state.Sr]) :
              heap[new_state.Sr][c] = pre.heap[new_state.Sr][c]
        /\ Len(heap[new_state.Sr]) = Len(pre.heap[new_state.Sr])

\* C10 witness: a call with distinct buffers returned after it wrote the new
\* cascade storages and added the input to its own copy of the state
C10_Witness ==
    /\ Returned
    /\ pre.state.Sr # pre.new_state.Sr
    /\ ~ShortBuffers
    /\ N >= 1
    /\ heap[new_state.Sr] # pre.heap[new_state.Sr]
    /\ local.state.storage # state.storage
    /\ new_state.storage # pre.new_state.storage

=============================================================================
